---- MODULE Spec2Model ----
(***************************************************************************)
(* Model of walkman_playlists_app.py: the WalkmanPlaylistApp widget as a   *)
(* state machine.  State is the widget's fields (root_folder, library,     *)
(* the rows of library_model, the rows and current row of playlist_widget) *)
(* plus what one handler run shows and writes (pickers, message boxes, the *)
(* .m3u8 file).  Strings are sequences of character codes, so that         *)
(* lower(), strip(), endswith(), find(), sorting, str(Path) and Path(str)  *)
(* are computed; paths are sequences of components.                        *)
(***************************************************************************)
EXTENDS Integers, Sequences, FiniteSets, TLC

VARIABLES
  root_folder,     \* self.root_folder: None or a Path (sequence of components)
  library,         \* self.library: list of path strings
  library_model,   \* rows of self.library_model (the displayed library view)
  playlist,        \* texts of the rows of self.playlist_widget
  currentRow,      \* self.playlist_widget.currentRow(), -1 when none
  libraryBase,     \* history: the folder the last scan walked (None before)
  playlistBase,    \* history: for each playlist row, libraryBase when added
  last,            \* the handler that ran last and its inputs
  prompts,         \* pickers / input dialogs the last handler showed
  notes,           \* message boxes the last handler showed
  written          \* what the last handler did to the output file

vars == <<root_folder, library, library_model, playlist, currentRow,
          libraryBase, playlistBase, last, prompts, notes, written>>

(* ------------------------------ bounds ------------------------------- *)

\* Rows the playlist may hold, rows one add may select, and the number of
\* lines a failing write may leave behind
MaxPlaylist == 3
MaxSel == 2
MaxFailAt == 1

(* ------------------------- characters, strings ----------------------- *)

Slash == <<47>>
Dot == <<46>>
DotDot == <<46, 46>>
Whitespace == {32, 9, 10, 13, 11, 12}

\* ('.mp3', '.flac', '.wav', '.m4a', '.aac', '.ogg')
AUDIO_EXTS ==
  { <<46, 109, 112, 51>>, <<46, 102, 108, 97, 99>>, <<46, 119, 97, 118>>,
    <<46, 109, 52, 97>>, <<46, 97, 97, 99>>, <<46, 111, 103, 103>> }

\* '#EXTM3U' and '#EXTINF:,'
EXTM3U == <<35, 69, 88, 84, 77, 51, 85>>
EXTINF == <<35, 69, 88, 84, 73, 78, 70, 58, 44>>

LowerChar(c) == IF c \in 65..90 THEN c + 32 ELSE c

\* str.lower()
Lower(s) == [i \in 1..Len(s) |-> LowerChar(s[i])]

RECURSIVE LStrip(_)
LStrip(s) ==
  IF s # <<>> /\ s[1] \in Whitespace THEN LStrip(Tail(s)) ELSE s

RECURSIVE RStrip(_)
RStrip(s) ==
  IF s # <<>> /\ s[Len(s)] \in Whitespace
    THEN RStrip(SubSeq(s, 1, Len(s) - 1))
    ELSE s

\* str.strip()
Strip(s) == RStrip(LStrip(s))

\* str.endswith(suffix)
EndsWith(s, suf) ==
  /\ Len(s) >= Len(suf)
  /\ SubSeq(s, Len(s) - Len(suf) + 1, Len(s)) = suf

\* str.find(sub): the lowest 0-based index where sub occurs, -1 when none
Find(s, sub) ==
  LET hits == { i \in 0..(Len(s) - Len(sub)) :
                  SubSeq(s, i + 1, i + Len(sub)) = sub }
  IN IF hits = {} THEN -1 ELSE CHOOSE i \in hits : \A j \in hits : i <= j

\* s <= t, Python's comparison of strings by code point
StrLe(s, t) ==
  \/ /\ Len(s) <= Len(t)
     /\ \A j \in 1..Len(s) : s[j] = t[j]
  \/ \E k \in 1..Len(s) :
       /\ k <= Len(t)
       /\ \A j \in 1..(k - 1) : s[j] = t[j]
       /\ s[k] < t[k]

(* ------------------------------- paths ------------------------------- *)

None == << <<>> >>

IsPrefix(p, q) == Len(p) <= Len(q) /\ SubSeq(q, 1, Len(p)) = p

\* str(PurePath): the components joined by '/'
RECURSIVE Join(_)
Join(comps) ==
  IF comps = <<>> THEN Dot
  ELSE IF Len(comps) = 1 THEN comps[1]
  ELSE comps[1] \o Slash \o Join(Tail(comps))

\* '/' + the components: the string of an absolute path
AbsStr(comps) == IF comps = <<>> THEN Slash ELSE Slash \o Join(comps)

\* str.split('/')
RECURSIVE SplitSlash(_, _)
SplitSlash(s, cur) ==
  IF s = <<>> THEN <<cur>>
  ELSE IF s[1] = 47 THEN <<cur>> \o SplitSlash(Tail(s), <<>>)
  ELSE SplitSlash(Tail(s), Append(cur, s[1]))

\* Path(str): the components of a path string; empty and '.' components drop
PathOf(s) ==
  LET Keep(c) == c # <<>> /\ c # Dot
  IN SelectSeq(SplitSlash(s, <<>>), Keep)

IsAbsStr(s) == s # <<>> /\ s[1] = 47

\* Path.parent
Parent(p) == IF p = <<>> THEN p ELSE SubSeq(p, 1, Len(p) - 1)

\* root / t
PathJoin(root, t) == IF IsAbsStr(t) THEN PathOf(t) ELSE root \o PathOf(t)

\* os.path.normpath on the components of an absolute path
RECURSIVE NormInto(_, _)
NormInto(done, rest) ==
  IF rest = <<>> THEN done
  ELSE IF rest[1] = DotDot
    THEN NormInto(Parent(done), Tail(rest))
    ELSE NormInto(Append(done, rest[1]), Tail(rest))

NormPath(p) == NormInto(<<>>, p)

CommonLen(p, q) ==
  LET agree == { k \in 0..Len(p) : k <= Len(q) /\ SubSeq(p, 1, k) = SubSeq(q, 1, k) }
  IN CHOOSE k \in agree : \A j \in agree : j <= k

\* os.path.relpath(path, start) of posixpath
Relpath(path, start) ==
  LET pl == NormPath(path)
      sl == NormPath(start)
      i == CommonLen(sl, pl)
      ups == [k \in 1..(Len(sl) - i) |-> DotDot]
  IN Join(ups \o SubSeq(pl, i + 1, Len(pl)))

(* ---------------------------- file system ---------------------------- *)

\* Component names
N_m == <<109>>
N_o == <<111>>
N_l == <<108>>
N_a == <<97>>
N_sub == <<115, 117, 98>>
N_s_mp3 == <<115, 46, 109, 112, 51>>
N_B_flac == <<66, 46, 102, 108, 97, 99>>
N_b_FLAC == <<98, 46, 70, 76, 65, 67>>
N_n_txt == <<110, 46, 116, 120, 116>>
N_mp3 == <<109, 112, 51>>
N_pl_m3u8 == <<112, 108, 46, 109, 51, 117, 56>>

\* The files the walk can meet:
\*   /m/a/s.mp3  /m/B.flac  /m/n.txt
\*   /o/b.FLAC   /o/mp3
\* /m/sub is an empty folder and /l is a symbolic link to /m.
RealFiles ==
  { <<N_m, N_a, N_s_mp3>>, <<N_m, N_B_flac>>, <<N_m, N_n_txt>>,
    <<N_o, N_b_FLAC>>, <<N_o, N_mp3>> }

LinkPath == <<N_l>>
LinkTarget == <<N_m>>

\* Path.resolve()
Resolve(p) ==
  IF IsPrefix(LinkPath, p)
    THEN LinkTarget \o SubSeq(p, Len(LinkPath) + 1, Len(p))
    ELSE p

\* os.walk(start): Path(root) / f for every file f below start
Walk(start) ==
  LET rs == Resolve(start)
  IN { start \o SubSeq(g, Len(rs) + 1, Len(g)) :
         g \in { h \in RealFiles : IsPrefix(rs, h) } }

(* ------------------------------ dialogs ------------------------------ *)

\* What a folder picker can return: '' when cancelled, else a directory
DirStrings == { <<>>, AbsStr(<<N_m>>), AbsStr(<<N_o>>) }

\* What the save dialog can return: '' when cancelled, else a file path
SaveStrings ==
  { <<>>,
    AbsStr(<<N_m, N_pl_m3u8>>), AbsStr(<<N_m, N_sub, N_pl_m3u8>>),
    AbsStr(<<N_l, N_pl_m3u8>>), AbsStr(<<N_o, N_pl_m3u8>>) }

\* What the name prompt can return as text: '', ' ', 'pl'
NameStrings == { <<>>, <<32>>, <<112, 108>> }

\* What the user can type in the filter field: '', 'B', ' flac ', 'zz'
FilterStrings ==
  { <<>>, <<66>>, <<32, 102, 108, 97, 99, 32>>, <<122, 122>> }

NoWrite == [opened |-> FALSE, path |-> <<>>, lines |-> <<>>]

Ran(op, cancelled, txt) == [op |-> op, cancelled |-> cancelled, txt |-> txt]

Quiet ==
  /\ notes' = <<>>
  /\ written' = NoWrite

(* ------------------------------- scan -------------------------------- *)

\* Faulty variant: the suffix test without lower()
IsAudioNameNoLower(f) == \E e \in AUDIO_EXTS : EndsWith(f, e)

\* f.lower().endswith(AUDIO_EXTS)
IsAudioName(f) == \E e \in AUDIO_EXTS : EndsWith(Lower(f), e)

\* The string recorded for one matching file
TrackEntry(full, start, root) ==
  IF root # None /\ IsPrefix(root, full)
    THEN Join(SubSeq(full, Len(root) + 1, Len(full)))
    ELSE Join(SubSeq(full, Len(start) + 1, Len(full)))

\* track_list as the walk builds it (its order is the walk's)
TrackSet(start, root) ==
  { TrackEntry(full, start, root) :
      full \in { g \in Walk(start) : IsAudioName(g[Len(g)]) } }

Orders(S) ==
  { f \in [1..Cardinality(S) -> S] :
      \A i, j \in 1..Cardinality(S) : i # j => f[i] # f[j] }

\* Faulty variant: a sort without the key (case-sensitive order)
SortedNoKey(S) ==
  { f \in Orders(S) :
      \A i \in 1..(Cardinality(S) - 1) : StrLe(f[i], f[i + 1]) }

\* sorted(track_list, key=lambda s: s.lower()): the sort is stable, so entries
\* with equal keys keep the walk's order, which the file system decides
SortedByLower(S) ==
  { f \in Orders(S) :
      \A i \in 1..(Cardinality(S) - 1) : StrLe(Lower(f[i]), Lower(f[i + 1])) }

\* Faulty variant: a populate that appends without clearing the model first
PopulateNoClear(lib, model) == model \o lib

\* populate_library: the rows of library_model afterwards
PopulateLibrary(lib, model) == lib

(* ------------------------------ filter ------------------------------- *)

\* filter_library(txt): the rows of library_model afterwards
FilterRows(lib, txt0) ==
  LET txt == Lower(Strip(txt0))
      Shown(t) == txt = <<>> \/ Find(Lower(txt), txt) # -1
  IN SelectSeq(lib, Shown)

(* ----------------------------- playlist ------------------------------ *)

\* QListWidget.takeItem(row): the rows left (row is 0-based)
TakeItem(s, row) == SubSeq(s, 1, row) \o SubSeq(s, row + 2, Len(s))

\* QListWidget.insertItem(row, item)
InsertItem(s, row, x) ==
  LET r == IF row > Len(s) THEN Len(s) ELSE row
  IN SubSeq(s, 1, r) \o <<x>> \o SubSeq(s, r + 1, Len(s))

\* currentRow() after takeItem(row) took the current row
RowAfterTake(s, row) == IF row < Len(s) - 1 THEN row ELSE row - 1

\* Faulty variant: a move that re-inserts at the row it took from
MovedUpSameRow(s, row) == InsertItem(TakeItem(s, row), row, s[row + 1])

\* move_up's takeItem(row); insertItem(row-1, item)
MovedUp(s, row) == InsertItem(TakeItem(s, row), row - 1, s[row + 1])

\* move_down's takeItem(row); insertItem(row+1, item)
MovedDown(s, row) == InsertItem(TakeItem(s, row), row + 1, s[row + 1])

\* Selections of the library view: rows in the order selectedIndexes gives
Selections(n) ==
  { s \in UNION { [1..k -> 1..n] : k \in 0..MaxSel } :
      \A i, j \in DOMAIN s : i # j => s[i] # s[j] }

(* ------------------------------- save -------------------------------- *)

\* Faulty variant: a relative path computed against the root, not the output folder
PathLineFromRoot(t, root, save_path) ==
  IF root # None THEN Relpath(PathJoin(root, t), root) ELSE t

\* The path line written for track t
PathLine(t, root, save_path) ==
  IF root # None /\ Resolve(Parent(save_path)) = Resolve(root)
    THEN t
    ELSE IF root # None
      THEN Relpath(PathJoin(root, t), Parent(save_path))
      ELSE t

\* Faulty variant: a writer that puts the header before every track
FileLinesHeaderEach(tracks, root, save_path) ==
  [k \in 1..(3 * Len(tracks)) |->
     IF k % 3 = 1 THEN EXTM3U
     ELSE IF k % 3 = 2 THEN EXTINF
     ELSE PathLine(tracks[k \div 3], root, save_path)]

\* The lines the write loop emits, in order
FileLines(tracks, root, save_path) ==
  [k \in 1..(1 + 2 * Len(tracks)) |->
     IF k = 1 THEN EXTM3U
     ELSE IF k % 2 = 0 THEN EXTINF
     ELSE PathLine(tracks[(k - 1) \div 2], root, save_path)]

(* ------------------------------ actions ------------------------------ *)

Init ==
  /\ root_folder = None
  /\ library = <<>>
  /\ library_model = <<>>
  /\ playlist = <<>>
  /\ currentRow = -1
  /\ libraryBase = None
  /\ playlistBase = <<>>
  /\ last = Ran("init", FALSE, <<>>)
  /\ prompts = <<>>
  /\ notes = <<>>
  /\ written = NoWrite

\* Faulty variant: a handler that stores the picker's answer without testing it
RootAfterNoTest(d, old) == PathOf(d)

\* choose_root: self.root_folder after the picker returned d
RootAfter(d, old) == IF d # <<>> THEN PathOf(d) ELSE old

ChooseRoot ==
  \E d \in DirStrings :
    /\ root_folder' = RootAfter(d, root_folder)
    /\ last' = Ran("choose_root", d = <<>>, <<>>)
    /\ prompts' = <<"getExistingDirectory:root">>
    /\ Quiet
    /\ UNCHANGED <<library, library_model, playlist, currentRow,
                   libraryBase, playlistBase>>

\* The part of scan_folder after start is known
ScanFrom(start, pick) ==
  \E lib \in SortedByLower(TrackSet(start, root_folder)) :
    /\ library' = lib
    /\ library_model' = PopulateLibrary(lib, library_model)
    /\ libraryBase' = start
    /\ last' = Ran("scan_folder", FALSE, <<>>)
    /\ prompts' = IF pick THEN <<"getExistingDirectory:scan">> ELSE <<>>
    /\ notes' = <<"information:Scan Complete">>
    /\ written' = NoWrite
    /\ UNCHANGED <<root_folder, playlist, currentRow, playlistBase>>

\* scan_folder's test of the picker's answer
ScanCancelled(d) == d = <<>>

ScanFolder ==
  IF root_folder = None
    THEN \E d \in DirStrings :
           IF ScanCancelled(d)
             THEN /\ last' = Ran("scan_folder", d = <<>>, <<>>)
                  /\ prompts' = <<"getExistingDirectory:scan">>
                  /\ Quiet
                  /\ UNCHANGED <<root_folder, library, library_model, playlist,
                                 currentRow, libraryBase, playlistBase>>
             ELSE ScanFrom(PathOf(d), TRUE)
    ELSE ScanFrom(root_folder, FALSE)

FilterLibrary ==
  \E txt \in FilterStrings :
    /\ library_model' = FilterRows(library, txt)
    /\ last' = Ran("filter_library", FALSE, txt)
    /\ prompts' = <<>>
    /\ Quiet
    /\ UNCHANGED <<root_folder, library, playlist, currentRow,
                   libraryBase, playlistBase>>

AddSelectedToPlaylist ==
  \E sel \in Selections(Len(library_model)) :
    LET items == [i \in 1..Len(sel) |-> library_model[sel[i]]]
    IN /\ Len(playlist) + Len(items) <= MaxPlaylist
       /\ playlist' = playlist \o items
       /\ playlistBase' = playlistBase \o [i \in 1..Len(sel) |-> libraryBase]
       /\ last' = Ran("add_selected_to_playlist", FALSE, <<>>)
       /\ prompts' = <<>>
       /\ Quiet
       /\ UNCHANGED <<root_folder, library, library_model, currentRow,
                      libraryBase>>

\* The user clicks a row of the playlist (single selection)
SelectPlaylistRow ==
  \E r \in 0..(Len(playlist) - 1) :
    /\ currentRow' = r
    /\ last' = Ran("select_row", FALSE, <<>>)
    /\ prompts' = <<>>
    /\ Quiet
    /\ UNCHANGED <<root_folder, library, library_model, playlist,
                   libraryBase, playlistBase>>

RemoveSelectedFromPlaylist ==
  /\ IF currentRow >= 0
       THEN /\ playlist' = TakeItem(playlist, currentRow)
            /\ playlistBase' = TakeItem(playlistBase, currentRow)
            /\ currentRow' = RowAfterTake(playlist, currentRow)
       ELSE UNCHANGED <<playlist, playlistBase, currentRow>>
  /\ last' = Ran("remove_selected_from_playlist", FALSE, <<>>)
  /\ prompts' = <<>>
  /\ Quiet
  /\ UNCHANGED <<root_folder, library, library_model, libraryBase>>

MoveUp ==
  /\ IF currentRow > 0
       THEN /\ playlist' = MovedUp(playlist, currentRow)
            /\ playlistBase' = MovedUp(playlistBase, currentRow)
            /\ currentRow' = currentRow - 1
       ELSE UNCHANGED <<playlist, playlistBase, currentRow>>
  /\ last' = Ran("move_up", FALSE, <<>>)
  /\ prompts' = <<>>
  /\ Quiet
  /\ UNCHANGED <<root_folder, library, library_model, libraryBase>>

MoveDown ==
  /\ IF currentRow >= 0 /\ currentRow < Len(playlist) - 1
       THEN /\ playlist' = MovedDown(playlist, currentRow)
            /\ playlistBase' = MovedDown(playlistBase, currentRow)
            /\ currentRow' = currentRow + 1
       ELSE UNCHANGED <<playlist, playlistBase, currentRow>>
  /\ last' = Ran("move_down", FALSE, <<>>)
  /\ prompts' = <<>>
  /\ Quiet
  /\ UNCHANGED <<root_folder, library, library_model, libraryBase>>

\* A drag inside the playlist (InternalMove): one row taken and dropped elsewhere
DragMove ==
  \E from \in 0..(Len(playlist) - 1), to \in 0..(Len(playlist) - 1),
     cur \in -1..(Len(playlist) - 1) :
    /\ from # to
    /\ playlist' = InsertItem(TakeItem(playlist, from), to, playlist[from + 1])
    /\ playlistBase' =
         InsertItem(TakeItem(playlistBase, from), to, playlistBase[from + 1])
    /\ currentRow' = cur
    /\ last' = Ran("drag_move", FALSE, <<>>)
    /\ prompts' = <<>>
    /\ Quiet
    /\ UNCHANGED <<root_folder, library, library_model, libraryBase>>

ClearPlaylist ==
  /\ playlist' = <<>>
  /\ playlistBase' = <<>>
  /\ currentRow' = -1
  /\ last' = Ran("clear_playlist", FALSE, <<>>)
  /\ prompts' = <<>>
  /\ Quiet
  /\ UNCHANGED <<root_folder, library, library_model, libraryBase>>

\* Faulty variant: a save that does not test for an empty playlist
SaveRefusedNever(count) == FALSE

\* save_playlist's first test: the playlist is empty
SaveRefused(count) == count = 0

\* The file left by the write loop.  fail = -2: every write succeeds;
\* -1: open() raises; k >= 0: a write raises after k lines
WriteFile(save_path, fail) ==
  LET full == FileLines(playlist, root_folder, save_path)
  IN IF fail = -2
       THEN /\ written' = [opened |-> TRUE, path |-> save_path, lines |-> full]
            /\ notes' = <<"information:Saved">>
       ELSE IF fail = -1
         THEN /\ written' = NoWrite
              /\ notes' = <<"critical:Save failed">>
         ELSE /\ written' = [opened |-> TRUE, path |-> save_path,
                             lines |-> SubSeq(full, 1, fail)]
              /\ notes' = <<"critical:Save failed">>

\* not ok or not suggested_name.strip()
NameRejected(ok, name) == ~ok \/ Strip(name) = <<>>

SavePlaylist ==
  /\ IF SaveRefused(Len(playlist))
       THEN /\ last' = Ran("save_playlist", FALSE, <<>>)
            /\ prompts' = <<>>
            /\ notes' = <<"warning:Nothing to save">>
            /\ written' = NoWrite
       ELSE \E ok \in BOOLEAN, name \in NameStrings :
              IF NameRejected(ok, name)
                THEN /\ last' = Ran("save_playlist", ~ok, <<>>)
                     /\ prompts' = <<"getText:name">>
                     /\ Quiet
                ELSE \E path \in SaveStrings :
                       /\ prompts' = <<"getText:name", "getSaveFileName">>
                       /\ last' = Ran("save_playlist", path = <<>>, <<>>)
                       /\ IF path = <<>>
                            THEN Quiet
                            ELSE \E fail \in -2..MaxFailAt :
                                   /\ fail <= 2 * Len(playlist)
                                   /\ WriteFile(PathOf(path), fail)
  /\ UNCHANGED <<root_folder, library, library_model, playlist, currentRow,
                 libraryBase, playlistBase>>

Next ==
  \/ ChooseRoot
  \/ ScanFolder
  \/ FilterLibrary
  \/ AddSelectedToPlaylist
  \/ SelectPlaylistRow
  \/ RemoveSelectedFromPlaylist
  \/ MoveUp
  \/ MoveDown
  \/ DragMove
  \/ ClearPlaylist
  \/ SavePlaylist

Spec == Init /\ [][Next]_vars

(* ------------------------------ claims ------------------------------- *)

Saved == notes = <<"information:Saved">>

OutDir == Parent(written.path)

\* The path line written for playlist row i (rows count from 1)
LineOf(i) == written.lines[2 * i + 1]

\* The file a path line denotes when read from the output file's folder
Denotes(line) == Resolve(NormPath(OutDir \o PathOf(line)))

Contains(s, sub) ==
  \E i \in 0..(Len(s) - Len(sub)) : SubSeq(s, i + 1, i + Len(sub)) = sub

Count(s, x) == Cardinality({ k \in 1..Len(s) : s[k] = x })

\* C1: after filter_library(s) the view is exactly the library entries, in
\* library order, whose text contains strip(s) case-insensitively.
C1_FilterShowsMatches ==
  last.op = "filter_library" =>
    LET Match(t) == Contains(Lower(t), Lower(Strip(last.txt)))
    IN library_model = SelectSeq(library, Match)

\* line is the canonical path of target relative to dir: k times '..' for the
\* components of dir below the longest common prefix, then the rest of target
IsRelativeForm(line, target, dir) ==
  LET comps == PathOf(line)
  IN /\ line = Join(comps)
     /\ \E k \in 0..Len(dir) :
          LET rest == SubSeq(comps, k + 1, Len(comps))
              common == SubSeq(dir, 1, Len(dir) - k)
          IN /\ k <= Len(comps)
             /\ \A j \in 1..k : comps[j] = DotDot
             /\ \A j \in 1..Len(rest) : rest[j] # DotDot
             /\ common \o rest = target
             /\ (k = 0 \/ rest = <<>> \/ dir[Len(dir) - k + 1] # rest[1])

\* C2: each path line a save writes is t itself when no root is set or the
\* output folder is the root folder, and otherwise the path of root/t relative
\* to the output folder.
C2_PathLineRule ==
  written.opened =>
    \A i \in 1..Len(playlist) :
      (2 * i + 1 <= Len(written.lines)) =>
        IF root_folder = None \/ Resolve(OutDir) = Resolve(root_folder)
          THEN LineOf(i) = playlist[i]
          ELSE IsRelativeForm(LineOf(i), root_folder \o PathOf(playlist[i]),
                              OutDir)

\* root /m, saved to /m/sub/pl.m3u8, first track a/s.mp3 written as ../a/s.mp3
C2_Witness ==
  /\ Saved
  /\ root_folder = <<N_m>>
  /\ OutDir = <<N_m, N_sub>>
  /\ playlist[1] = <<97, 47, 115, 46, 109, 112, 51>>
  /\ LineOf(1) = <<46, 46, 47, 97, 47, 115, 46, 109, 112, 51>>

\* C3: a successful save of N >= 1 rows writes one '#EXTM3U' line first, then
\* N pairs '#EXTINF:,' / path line, pair i for row i, and nothing else.
C3_FileShape ==
  Saved =>
    /\ Len(playlist) >= 1
    /\ Len(written.lines) = 1 + 2 * Len(playlist)
    /\ written.lines[1] = EXTM3U
    /\ Count(written.lines, EXTM3U) = 1
    /\ Count(written.lines, EXTINF) = Len(playlist)
    /\ \A i \in 1..Len(playlist) :
         /\ written.lines[2 * i] = EXTINF
         /\ IF root_folder = None
              THEN LineOf(i) = playlist[i]
              ELSE Denotes(LineOf(i)) = Resolve(root_folder \o PathOf(playlist[i]))

\* a saved playlist of three rows, the first and third the same track
C3_Witness ==
  /\ Saved
  /\ Len(playlist) = 3
  /\ playlist[1] = playlist[3]
  /\ playlist[1] # playlist[2]
  /\ root_folder # None
  /\ OutDir # root_folder

\* C4: in every reachable state adjacent library entries a, b satisfy
\* lower(a) <= lower(b).
C4_LibrarySorted ==
  \A i \in 1..(Len(library) - 1) :
    StrLe(Lower(library[i]), Lower(library[i + 1]))

\* a library whose case-sensitive order would be the other way round
C4_Witness ==
  /\ Len(library) >= 2
  /\ ~StrLe(library[1], library[2])
  /\ last.op = "scan_folder"

HasAudioSuffix(name) ==
  \E e \in AUDIO_EXTS :
    /\ Len(name) >= Len(e)
    /\ \A j \in 1..Len(e) : LowerChar(name[Len(name) - Len(e) + j]) = e[j]

\* C5: after a completed scan the library holds exactly one entry per file of
\* the scanned tree whose lowercased name ends with an audio extension, and
\* nothing else (nothing of an earlier library is kept).
C5_LibraryIsScan ==
  libraryBase # None =>
    LET base == Resolve(libraryBase)
        audio == { g \in RealFiles :
                     IsPrefix(base, g) /\ HasAudioSuffix(g[Len(g)]) }
        Rel(g) == Join(SubSeq(g, Len(base) + 1, Len(g)))
    IN /\ Len(library) = Cardinality(audio)
       /\ \A g \in audio : Count(library, Rel(g)) = 1
       /\ \A i \in 1..Len(library) : \E g \in audio : library[i] = Rel(g)

\* a re-scan of /o: the library is b.FLAC alone, and the playlist still shows
\* a track of the library it replaced
C5_Witness ==
  /\ last.op = "scan_folder"
  /\ ~last.cancelled
  /\ library = << <<98, 46, 70, 76, 65, 67>> >>
  /\ \E i \in 1..Len(playlist) : Count(library, playlist[i]) = 0

SameBag(s, t) ==
  /\ Len(s) = Len(t)
  /\ \A k \in 1..Len(s) : Count(s, s[k]) = Count(t, s[k])

\* rows r and r2 (counted from 1) exchanged, every other row kept
Swapped(s, t, r, r2) ==
  /\ t[r] = s[r2]
  /\ t[r2] = s[r]
  /\ \A k \in 1..Len(s) : k \notin {r, r2} => t[k] = s[k]

\* C6: move_up (move_down) swaps the selected row with the one before (after)
\* it and moves the selection along; at the first (last) row or with nothing
\* selected the order is unchanged; the entries as a multiset never change.
C6_MoveSwaps ==
  [][ /\ last'.op = "move_up" =>
           /\ SameBag(playlist, playlist')
           /\ IF currentRow > 0
                THEN /\ Swapped(playlist, playlist', currentRow, currentRow + 1)
                     /\ currentRow' = currentRow - 1
                ELSE playlist' = playlist
      /\ last'.op = "move_down" =>
           /\ SameBag(playlist, playlist')
           /\ IF currentRow >= 0 /\ currentRow < Len(playlist) - 1
                THEN /\ Swapped(playlist, playlist', currentRow + 1,
                                currentRow + 2)
                     /\ currentRow' = currentRow + 1
                ELSE playlist' = playlist ]_vars

\* move_up has just moved the last of three different rows to the middle
C6_Witness ==
  /\ last.op = "move_up"
  /\ Len(playlist) = 3
  /\ currentRow = 1
  /\ playlist[1] # playlist[2]
  /\ playlist[2] # playlist[3]
  /\ playlist[1] # playlist[3]

\* C7: save_playlist on an empty playlist shows the warning and nothing else:
\* no prompt, no dialog, no file, and root folder, library and playlist stay.
C7_EmptySaveOnlyWarns ==
  [][ (last'.op = "save_playlist" /\ playlist = <<>>) =>
        /\ notes' = <<"warning:Nothing to save">>
        /\ prompts' = <<>>
        /\ written' = NoWrite
        /\ UNCHANGED <<root_folder, library, library_model, playlist>> ]_vars

C7_Witness ==
  /\ last.op = "save_playlist"
  /\ playlist = <<>>
  /\ notes = <<"warning:Nothing to save">>
  /\ library # <<>>
  /\ root_folder # None

\* C8: a handler whose picker the user cancels shows no message, writes no
\* file and leaves root folder, library, library view and playlist as they
\* were.
C8_CancelChangesNothing ==
  [][ last'.cancelled =>
        /\ notes' = <<>>
        /\ written' = NoWrite
        /\ UNCHANGED <<root_folder, library, library_model, playlist>> ]_vars

\* the destination dialog of a save was cancelled, with a root and a playlist
C8_Witness ==
  /\ last.op = "save_playlist"
  /\ last.cancelled
  /\ prompts = <<"getText:name", "getSaveFileName">>
  /\ playlist # <<>>
  /\ root_folder # None

\* C9: when a root folder is set at save time, every path line written, read
\* from the output file's folder, denotes the file the scan found for that
\* row, and every row is a path recorded relative to the current root folder.
C9_SavedIsPlayable ==
  (Saved /\ root_folder # None) =>
    \A i \in 1..Len(playlist) :
      /\ Denotes(LineOf(i)) = Resolve(playlistBase[i] \o PathOf(playlist[i]))
      /\ Resolve(playlistBase[i]) = Resolve(root_folder)

\* C10: in every reachable state every playlist entry equals some entry of
\* the current library.
C10_PlaylistWithinLibrary ==
  \A i \in 1..Len(playlist) : Count(library, playlist[i]) >= 1

\* C10 as the code has it: a step puts into the playlist only entries that
\* are in the library at that moment, beside the ones the playlist held; a
\* scan replaces the library and leaves the playlist as it is.
C10_AddedFromLibrary ==
  [][ /\ \A i \in 1..Len(playlist') :
           Count(playlist, playlist'[i]) >= 1 \/ Count(library, playlist'[i]) >= 1
      /\ last'.op = "scan_folder" => playlist' = playlist ]_vars

\* an add has just appended a library entry to a playlist that holds a track
\* of a library since replaced
C10_Witness ==
  /\ last.op = "add_selected_to_playlist"
  /\ Len(playlist) >= 2
  /\ Count(library, playlist[Len(playlist)]) >= 1
  /\ Count(library, playlist[1]) = 0

====
